---- MODULE Spec2Model ----
(***************************************************************************)
(* asyncws (asyncws/protocol.py): one Websocket endpoint bound to an open  *)
(* transport.  The receive task runs recv_entire_frame, other tasks call   *)
(* close/send/send_fragment*/ping.  Frames are modelled after recv_frame   *)
(* has read them from the reader, and before send_frame's bytes leave the  *)
(* writer.  The opening handshake (connect, handle_server_websocket) has   *)
(* its own specification, SpecHs; the bytes of a frame are followed in     *)
(* SpecCodec (send_frame, recv_frame) and SpecStream (the writes of        *)
(* several tasks).  Byte strings are sequences of 0..255, Python str       *)
(* values are sequences of code points.                                    *)
(***************************************************************************)
EXTENDS Integers, Sequences, FiniteSets, TLC

(* ------------------------------ bounds -------------------------------- *)
\* frames read from the peer plus caller operations (close, send,
\* send_fragment*, ping) in one run
MaxOps == 3
\* recv calls answered with None that the model follows
MaxNone == 2

(* ------------------------- program constants -------------------------- *)
STREAM == 0
TEXT == 1
BINARY == 2
CLOSE == 8
PING == 9
PONG == 10

\* _WEBSOCKET_MAX_PAYLOAD is 33554432 in the source; the model scales it
\* to 3 so that frames and messages around the limit can be enumerated.
WEBSOCKET_MAX_PAYLOAD == 3

\* the list literal of the source: 3000, 3999, 4000 and 4999 are four
\* members, not the ends of two ranges
VALID_STATUS_CODES ==
    {1000, 1001, 1002, 1003, 1007, 1008, 1009, 1010, 1011, 3000, 3999, 4000, 4999}

(* ------------------------------ values -------------------------------- *)
\* a Python str (code points, or the text of a message literal) or bytes
Str(cps) == [kind |-> "str", msg |-> "", data |-> cps]
Lit(m) == [kind |-> "str", msg |-> m, data |-> << >>]
Bytes(bs) == [kind |-> "bytes", msg |-> "", data |-> bs]

\* exceptions.ClosedException(status, reason); str(exp) is its reason
ClosedException(st, rs) == [kind |-> "ClosedException", status |-> st, reason |-> rs]
\* any other exception, with str(exp) = text
OtherException(text) == [kind |-> "Exception", status |-> 0, reason |-> Lit(text)]
NoException == [kind |-> "none", status |-> 0, reason |-> Lit("")]

(* ------------------------------- UTF-8 -------------------------------- *)
\* number of bytes of the sequence a lead byte announces, 0 for a byte that
\* cannot start a sequence
Utf8Need(b) ==
    IF b < 128 THEN 1
    ELSE IF b >= 194 /\ b <= 223 THEN 2
    ELSE IF b >= 224 /\ b <= 239 THEN 3
    ELSE IF b >= 240 /\ b <= 244 THEN 4
    ELSE 0

\* whether c may be the k-th byte (k >= 2) of a sequence led by b
Utf8ContOk(b, k, c) ==
    IF k = 2 /\ b = 224 THEN c >= 160 /\ c <= 191
    ELSE IF k = 2 /\ b = 237 THEN c >= 128 /\ c <= 159
    ELSE IF k = 2 /\ b = 240 THEN c >= 144 /\ c <= 191
    ELSE IF k = 2 /\ b = 244 THEN c >= 128 /\ c <= 143
    ELSE c >= 128 /\ c <= 191

Utf8CodePoint(s) ==
    IF Len(s) = 1 THEN s[1]
    ELSE IF Len(s) = 2 THEN (s[1] - 192) * 64 + (s[2] - 128)
    ELSE IF Len(s) = 3 THEN (s[1] - 224) * 4096 + (s[2] - 128) * 64 + (s[3] - 128)
    ELSE (s[1] - 240) * 262144 + (s[2] - 128) * 4096 + (s[3] - 128) * 64 + (s[4] - 128)

\* codecs utf-8 decoder on the bytes bs: ok = no UnicodeDecodeError, out =
\* the decoded code points, pend = the bytes of a trailing incomplete
\* sequence kept for the next call (final = False only)
RECURSIVE Utf8Decode(_, _)
Utf8Decode(bs, final) ==
    IF bs = << >> THEN [ok |-> TRUE, out |-> << >>, pend |-> << >>]
    ELSE LET b == bs[1]
             n == Utf8Need(b)
             have == IF Len(bs) < n THEN Len(bs) ELSE n
         IN IF n = 0 \/ \E k \in 2..have : ~Utf8ContOk(b, k, bs[k])
            THEN [ok |-> FALSE, out |-> << >>, pend |-> << >>]
            ELSE IF have < n
            THEN IF final THEN [ok |-> FALSE, out |-> << >>, pend |-> << >>]
                 ELSE [ok |-> TRUE, out |-> << >>, pend |-> bs]
            ELSE LET r == Utf8Decode(SubSeq(bs, n + 1, Len(bs)), final)
                 IN [ok |-> r.ok,
                     out |-> << Utf8CodePoint(SubSeq(bs, 1, n)) >> \o r.out,
                     pend |-> r.pend]

(* ------------------------------ frames -------------------------------- *)
\* A frame as the peer wrote it: the header bits recv_frame extracts (fin =
\* h1 & 0x80 as a boolean, rsv = h1 & 0x70, opcode = h1 & 0x0F, len7 = h2 &
\* 0x7F), the length after the extended-length field, and the payload after
\* unmasking.
Frame(fin, rsv, opcode, payload) ==
    [fin |-> fin, rsv |-> rsv, opcode |-> opcode, payload |-> payload,
     len7 |-> Len(payload), length |-> Len(payload)]

\* recv_frame reporting an oversized payload as a protocol error (1002)
recv_frame_oversize1002(f) ==
    LET fail(e) == [fin |-> FALSE, opcode |-> 0, payload |-> << >>, length |-> 0, exc |-> e]
    IN IF f.rsv # 0 THEN fail(ClosedException(1002, Lit("RSV bit must be 0")))
       ELSE IF f.opcode \in {PONG, PING} /\ f.len7 > 125
       THEN fail(ClosedException(1002, Lit("control frame length can not be > 125")))
       ELSE IF f.opcode \notin {CLOSE, STREAM, TEXT, BINARY, PONG, PING}
       THEN fail(ClosedException(1002, Lit("unknown opcode")))
       ELSE IF f.length > WEBSOCKET_MAX_PAYLOAD
       THEN fail(ClosedException(1002, Lit("payload too large")))
       ELSE [fin |-> f.fin, opcode |-> f.opcode, payload |-> f.payload,
             length |-> f.length, exc |-> NoException]

\* recv_frame: the exception it raises, or (fin, opcode, length, payload)
recv_frame(f) ==
    LET fail(e) == [fin |-> FALSE, opcode |-> 0, payload |-> << >>, length |-> 0, exc |-> e]
    IN IF f.rsv # 0 THEN fail(ClosedException(1002, Lit("RSV bit must be 0")))
       ELSE IF f.opcode \in {PONG, PING} /\ f.len7 > 125
       THEN fail(ClosedException(1002, Lit("control frame length can not be > 125")))
       ELSE IF f.opcode \notin {CLOSE, STREAM, TEXT, BINARY, PONG, PING}
       THEN fail(ClosedException(1002, Lit("unknown opcode")))
       ELSE IF f.length > WEBSOCKET_MAX_PAYLOAD
       THEN fail(ClosedException(1009, Lit("payload too large")))
       ELSE [fin |-> f.fin, opcode |-> f.opcode, payload |-> f.payload,
             length |-> f.length, exc |-> NoException]

\* str.encode('utf-8') of code points below 0x800
RECURSIVE Utf8Encode(_)
Utf8Encode(cps) ==
    IF cps = << >> THEN << >>
    ELSE LET c == cps[1]
         IN (IF c < 128 THEN << c >> ELSE << 192 + (c \div 64), 128 + (c % 64) >>)
            \o Utf8Encode(Tail(cps))

\* the payload bytes of a str or bytes value (isinstance(data, str) branch)
PayloadOf(v) == IF v.kind = "str" THEN Utf8Encode(v.data) ELSE v.data

(* ------------------------------- state -------------------------------- *)
VARIABLES
    mask,          \* ws._mask: TRUE for an endpoint made by connect
    closed,        \* ws._closed: a CLOSE frame has been sent
    status,        \* ws.status
    reason,        \* ws.reason
    closeCalls,    \* number of writer.close() calls so far
    rd,            \* the reader: "open", "eof" (feed_eof) or "exc" (set_exception)
    connLost,      \* the stream protocol has seen connection_lost
    wr,            \* the frames handed to writer.write, in order
    rpc,           \* the recv task: "idle", "reading" (in recv_frame), "closing" (in the drain of its CLOSE)
    pend,          \* the ClosedException recv raises once its CLOSE is drained
    frag_start,    \* locals of recv_entire_frame
    frag_type,
    frag_buffer,
    frag_decoder,  \* bytes the incremental decoder holds back
    rret,          \* what the last finished recv returned: "-", "msg" or "None"
    delivered,     \* the messages recv has returned, in order
    lastFrame,     \* the frame the last recv step took from the reader
    spc,           \* the calling task: "idle" or "drain" (in writer.drain)
    sres,          \* outcome of its last finished call: "-", "ok", "raised"
    callLate,      \* its current or last call began after the first writer.close()
    nframes,       \* frames read so far
    ncalls,        \* caller operations so far
    sent,          \* complete messages the peer has put on the wire, as raw bytes
    peerBuf,       \* payload bytes of the message the peer is in the middle of
    peerType,      \* opcode of that message
    peerIn,        \* the peer is in the middle of a fragmented message
    peerOk,        \* the peer's data frames so far follow the fragmentation grammar
    hrole,         \* the opening handshake: "client" (connect), "server" (handle_server_websocket), "none"
    auto_handshake,\* start_server's auto_handshake
    hpc,           \* position of the handshake: "off", "start", "drain", "readline", "cancelling", "func", "end"
    header_buffer, \* the header lines read so far
    hwr,           \* what the handshake handed to writer.write, in order
    key,           \* the Sec-WebSocket-Key connect sent
    url,           \* the URL given to connect
    port,          \* the port connect passed to open_connection
    hres,          \* "-", "func" (func was called), "websocket" (connect returned one), "raised"
    hexc,          \* the exception connect raised, or the one that ended the server handshake
    cin,           \* the frame codec: the arguments given to send_frame
    cbytes,        \* the bytes send_frame wrote for them
    cout,          \* what recv_frame returned on these bytes
    cpc,           \* "off", "args", "written", "read"
    running,       \* the write stream: the task that runs, "loop" when all are suspended, "off"
    tpc,           \* of each task: "ready", "header", "mask", "data", "flush", "drain", "off"
    targs,         \* of each task: the arguments of its send_frame call
    out,           \* the chunks handed to writer.write, in order
    started        \* the bytes of each frame whose header was written, in order

vars == << mask, closed, status, reason, closeCalls, rd, connLost, wr, rpc, pend,
           frag_start, frag_type, frag_buffer, frag_decoder, rret, delivered,
           lastFrame, spc, sres, callLate, nframes, ncalls,
           sent, peerBuf, peerType, peerIn, peerOk,
           hrole, auto_handshake, hpc, header_buffer, hwr, key, url, port, hres, hexc,
           cin, cbytes, cout, cpc, running, tpc, targs, out, started >>

recvLocals == << frag_start, frag_type, frag_buffer, frag_decoder >>
peerVars == << sent, peerBuf, peerType, peerIn, peerOk >>
callVars == << spc, sres, callLate, ncalls >>
codecVars == << cin, cbytes, cout, cpc >>
streamVars == << running, tpc, targs, out, started >>
auxVars == << codecVars, streamVars >>
hsVars == << hrole, auto_handshake, hpc, header_buffer, hwr, key, url, port, hres, hexc >>

NoFrame == [fin |-> FALSE, rsv |-> 0, opcode |-> 15, payload |-> << >>, len7 |-> 0, length |-> 0]

NoUrl == [port |-> 0, scheme |-> << >>]

\* Websocket.__init__, but for _mask, on an open transport
WebsocketInit ==
    /\ closed = FALSE
    /\ status = 1000
    /\ reason = Str(<< >>)
    /\ closeCalls = 0
    /\ rd = "open"
    /\ connLost = FALSE
    /\ wr = << >>
    /\ rpc = "idle"
    /\ pend = NoException
    /\ frag_start = FALSE
    /\ frag_type = BINARY
    /\ frag_buffer = << >>
    /\ frag_decoder = << >>
    /\ rret = "-"
    /\ delivered = << >>
    /\ lastFrame = NoFrame
    /\ spc = "idle"
    /\ sres = "-"
    /\ callLate = FALSE
    /\ nframes = 0
    /\ ncalls = 0
    /\ sent = << >>
    /\ peerBuf = << >>
    /\ peerType = BINARY
    /\ peerIn = FALSE
    /\ peerOk = TRUE

\* the opening handshake is over and is not followed
HandshakeOff ==
    /\ hrole = "none"
    /\ auto_handshake = FALSE
    /\ hpc = "off"
    /\ header_buffer = << >>
    /\ hwr = << >>
    /\ key = 0
    /\ url = NoUrl
    /\ port = 0
    /\ hres = "-"
    /\ hexc = NoException

NoArgs == [data |-> << >>, fin |-> FALSE, opcode |-> 0, mask |-> FALSE, mask_bits |-> 0]
NoResult == [fin |-> FALSE, opcode |-> 0, payload |-> << >>, length |-> 0, exc |-> NoException]

\* the frame codec is not followed on its own
CodecOff ==
    /\ cin = NoArgs
    /\ cbytes = << >>
    /\ cout = NoResult
    /\ cpc = "off"

\* the tasks that write to one connection: the task that runs recv, and two
\* tasks that call send, ping, close and the send_fragment operations
Tasks == {"recv", "t1", "t2"}

NoCall == [data |-> << >>, fin |-> FALSE, opcode |-> 0, mask |-> FALSE, mask_bits |-> 0,
           flush |-> FALSE, id |-> 0]

\* the write stream is not followed chunk by chunk
StreamOff ==
    /\ running = "off"
    /\ tpc = [t \in Tasks |-> "off"]
    /\ targs = [t \in Tasks |-> NoCall]
    /\ out = << >>
    /\ started = << >>

\* Websocket.__init__ on an open transport; connect then sets _mask
Init ==
    /\ mask \in BOOLEAN
    /\ WebsocketInit
    /\ HandshakeOff
    /\ CodecOff
    /\ StreamOff

(* ------------------------------ sending ------------------------------- *)
\* send_frame up to its drain: the frame handed to writer.write.  The FIN
\* bit (0x80 of byte 0) is set when the fin argument is False.
send_frame(fin, opcode, data, msk) ==
    [opcode |-> opcode, payload |-> data, mask |-> msk, finbit |-> (fin = FALSE)]

\* the entry of wr for a frame: late marks a write made after writer.close(),
\* by tells the recv task ("recv") from a caller operation ("call")
Written(fr, who) ==
    [opcode |-> fr.opcode, payload |-> fr.payload, mask |-> fr.mask,
     finbit |-> fr.finbit, late |-> closeCalls > 0, by |-> who]

\* struct.pack("!H", status)
PackH(n) == << n \div 256, n % 256 >>

\* send_close_frame up to the drain of its send_frame
send_close_frame(st, rs, msk) == send_frame(FALSE, CLOSE, PackH(st) \o PayloadOf(rs), msk)

\* writer.drain(): the exception it raises, if any
DrainException ==
    IF rd = "exc" THEN OtherException("[Errno 104] Connection reset by peer")
    ELSE IF connLost THEN OtherException("Connection lost")
    ELSE NoException

(* ----------------------------- receiving ------------------------------ *)
Msg(type, data) == [data |-> data, type |-> type]
NoMsg == Msg("none", << >>)

\* ''.join(chunks)
RECURSIVE Join(_)
Join(chunks) == IF chunks = << >> THEN << >> ELSE chunks[1] \o Join(Tail(chunks))

\* len(_frag_buffer): the number of items of the list of decoded chunks of
\* a text message, the number of bytes of the bytearray of a binary one
BufferLen(buf) == Len(buf)

\* status not in _VALID_STATUS_CODES
InvalidStatus(st) == st \notin VALID_STATUS_CODES

\* the (status, reason) recv_entire_frame resolves from a CLOSE payload
ParseClose(frame) ==
    IF Len(frame) = 0 THEN [status |-> 1000, reason |-> Bytes(<< >>)]
    ELSE IF Len(frame) >= 2
    THEN LET st == frame[1] * 256 + frame[2]
             rs == SubSeq(frame, 3, Len(frame))
             d == Utf8Decode(rs, TRUE)
         IN [status |-> IF InvalidStatus(st) \/ (Len(rs) > 0 /\ ~d.ok) THEN 1002 ELSE st,
             reason |-> IF Len(rs) > 0 /\ d.ok THEN Str(d.out) ELSE Bytes(rs)]
    ELSE [status |-> 1002, reason |-> Bytes(<< >>)]

UnicodeDecodeError == OtherException("'utf-8' codec can't decode bytes")
FragmentationError == ClosedException(1002, Lit("fragmentation protocol error"))
PayloadTooLarge == ClosedException(1009, Lit("payload too large"))

Out(kind, exc, msg, fs, ft, fb, fd, pong) ==
    [kind |-> kind, msg |-> msg, exc |-> exc, fs |-> fs, ft |-> ft, fb |-> fb,
     fd |-> fd, pong |-> pong]

\* a fin=0 frame other than CLOSE: start or continue a fragmented message
FragmentStep(r, fs, ft, fb, fd) ==
    LET raise(e) == Out("raise", e, NoMsg, fs, ft, fb, fd, FALSE)
        frame == r.payload
    IN IF r.opcode # STREAM
       THEN IF r.opcode \in {PING, PONG, CLOSE}
            THEN raise(ClosedException(1002, Lit("control messages can not be fragmented")))
            ELSE IF r.opcode = TEXT
            THEN LET d == Utf8Decode(frame, FALSE)
                     buf == IF d.out # << >> THEN << d.out >> ELSE << >>
                 IN IF ~d.ok THEN raise(UnicodeDecodeError)
                    ELSE IF BufferLen(buf) > WEBSOCKET_MAX_PAYLOAD THEN raise(PayloadTooLarge)
                    ELSE Out("cont", NoException, NoMsg, TRUE, TEXT, buf, d.pend, FALSE)
            ELSE IF BufferLen(frame) > WEBSOCKET_MAX_PAYLOAD THEN raise(PayloadTooLarge)
                 ELSE Out("cont", NoException, NoMsg, TRUE, r.opcode, frame, << >>, FALSE)
       ELSE IF fs = FALSE THEN raise(FragmentationError)
            ELSE IF ft = TEXT
            THEN LET d == Utf8Decode(fd \o frame, FALSE)
                     buf == IF d.out # << >> THEN Append(fb, d.out) ELSE fb
                 IN IF ~d.ok THEN raise(UnicodeDecodeError)
                    ELSE IF BufferLen(buf) > WEBSOCKET_MAX_PAYLOAD THEN raise(PayloadTooLarge)
                    ELSE Out("cont", NoException, NoMsg, fs, ft, buf, d.pend, FALSE)
            ELSE IF BufferLen(fb \o frame) > WEBSOCKET_MAX_PAYLOAD THEN raise(PayloadTooLarge)
                 ELSE Out("cont", NoException, NoMsg, fs, ft, fb \o frame, fd, FALSE)

\* the last fragment of a binary message put in front of the buffer
FinalFragment_prepend(r, fs, ft, fb, fd) ==
    LET raise(e) == Out("raise", e, NoMsg, fs, ft, fb, fd, FALSE)
        frame == r.payload
    IN IF fs = FALSE THEN raise(FragmentationError)
       ELSE IF ft = TEXT
       THEN LET d == Utf8Decode(fd \o frame, TRUE)
                str == Join(Append(fb, d.out))
            IN IF ~d.ok THEN raise(UnicodeDecodeError)
               ELSE IF Len(str) > WEBSOCKET_MAX_PAYLOAD THEN raise(PayloadTooLarge)
               ELSE Out("ret", NoException, Msg("text", str), fs, ft, fb, fd, FALSE)
       ELSE IF Len(fb \o frame) > WEBSOCKET_MAX_PAYLOAD THEN raise(PayloadTooLarge)
            ELSE Out("ret", NoException, Msg("binary", frame \o fb), fs, ft, fb, fd, FALSE)

\* a fin=1 CONTINUATION: finish the fragmented message
FinalFragment(r, fs, ft, fb, fd) ==
    LET raise(e) == Out("raise", e, NoMsg, fs, ft, fb, fd, FALSE)
        frame == r.payload
    IN IF fs = FALSE THEN raise(FragmentationError)
       ELSE IF ft = TEXT
       THEN LET d == Utf8Decode(fd \o frame, TRUE)
                str == Join(Append(fb, d.out))
            IN IF ~d.ok THEN raise(UnicodeDecodeError)
               ELSE IF Len(str) > WEBSOCKET_MAX_PAYLOAD THEN raise(PayloadTooLarge)
               ELSE Out("ret", NoException, Msg("text", str), fs, ft, fb, fd, FALSE)
       ELSE IF Len(fb \o frame) > WEBSOCKET_MAX_PAYLOAD THEN raise(PayloadTooLarge)
            ELSE Out("ret", NoException, Msg("binary", fb \o frame), fs, ft, fb, fd, FALSE)

\* a PING that is returned to the caller as a binary message
FinalStep_pingDelivered(r, fs, ft, fb, fd) ==
    LET raise(e) == Out("raise", e, NoMsg, fs, ft, fb, fd, FALSE)
        frame == r.payload
    IN IF r.opcode = STREAM THEN FinalFragment(r, fs, ft, fb, fd)
       ELSE IF r.opcode = PONG THEN Out("cont", NoException, NoMsg, fs, ft, fb, fd, FALSE)
       ELSE IF fs = TRUE THEN raise(FragmentationError)
       ELSE IF r.opcode = TEXT
       THEN LET d == Utf8Decode(frame, TRUE)
            IN IF ~d.ok THEN raise(ClosedException(1002, Lit("invalid utf-8 payload")))
               ELSE Out("ret", NoException, Msg("text", d.out), fs, ft, fb, fd, FALSE)
       ELSE Out("ret", NoException, Msg("binary", frame), fs, ft, fb, fd, r.opcode = PING)

\* a fin=1 frame other than CLOSE
FinalStep(r, fs, ft, fb, fd) ==
    LET raise(e) == Out("raise", e, NoMsg, fs, ft, fb, fd, FALSE)
        frame == r.payload
    IN IF r.opcode = STREAM THEN FinalFragment(r, fs, ft, fb, fd)
       ELSE IF r.opcode = PING THEN Out("cont", NoException, NoMsg, fs, ft, fb, fd, TRUE)
       ELSE IF r.opcode = PONG THEN Out("cont", NoException, NoMsg, fs, ft, fb, fd, FALSE)
       ELSE IF fs = TRUE THEN raise(FragmentationError)
       ELSE IF r.opcode = TEXT
       THEN LET d == Utf8Decode(frame, TRUE)
            IN IF ~d.ok THEN raise(ClosedException(1002, Lit("invalid utf-8 payload")))
               ELSE Out("ret", NoException, Msg("text", d.out), fs, ft, fb, fd, FALSE)
       ELSE Out("ret", NoException, Msg("binary", frame), fs, ft, fb, fd, FALSE)

\* one turn of the while loop on a frame that is not a CLOSE
LoopStep(r, fs, ft, fb, fd) ==
    IF r.fin = FALSE THEN FragmentStep(r, fs, ft, fb, fd) ELSE FinalStep(r, fs, ft, fb, fd)

\* the except clause without its writer.close()
Handler_noClose(exc) ==
    /\ closeCalls' = closeCalls
    /\ status' = IF exc.kind = "ClosedException" THEN exc.status ELSE 1002
    /\ reason' = exc.reason
    /\ rret' = "None"
    /\ rpc' = "idle"
    /\ pend' = NoException

\* the except clause: close the writer, record status and reason, return None
Handler(exc) ==
    /\ closeCalls' = closeCalls + 1
    /\ status' = IF exc.kind = "ClosedException" THEN exc.status ELSE 1002
    /\ reason' = exc.reason
    /\ rret' = "None"
    /\ rpc' = "idle"
    /\ pend' = NoException

\* what the frame f adds to the messages the peer has sent
PeerSends(f) ==
    IF f.rsv # 0 \/ f.opcode \notin {STREAM, TEXT, BINARY, CLOSE, PING, PONG}
       \/ (f.opcode \in {CLOSE, PING, PONG} /\ ~f.fin)
    THEN /\ peerOk' = FALSE
         /\ UNCHANGED << sent, peerBuf, peerType, peerIn >>
    ELSE IF f.opcode \in {CLOSE, PING, PONG} THEN UNCHANGED peerVars
    ELSE IF f.opcode = STREAM
    THEN IF ~peerIn
         THEN /\ peerOk' = FALSE
              /\ UNCHANGED << sent, peerBuf, peerType, peerIn >>
         ELSE IF f.fin
         THEN /\ sent' = Append(sent, [type |-> peerType, raw |-> peerBuf \o f.payload])
              /\ peerOk' = (peerOk /\ (peerType = TEXT => Utf8Decode(peerBuf \o f.payload, TRUE).ok))
              /\ peerBuf' = << >>
              /\ peerIn' = FALSE
              /\ UNCHANGED peerType
         ELSE /\ peerBuf' = peerBuf \o f.payload
              /\ UNCHANGED << sent, peerType, peerIn, peerOk >>
    ELSE IF peerIn
    THEN /\ peerOk' = FALSE
         /\ UNCHANGED << sent, peerBuf, peerType, peerIn >>
    ELSE IF f.fin
    THEN /\ sent' = Append(sent, [type |-> f.opcode, raw |-> f.payload])
         /\ peerOk' = (peerOk /\ (f.opcode = TEXT => Utf8Decode(f.payload, TRUE).ok))
         /\ UNCHANGED << peerBuf, peerType, peerIn >>
    ELSE /\ peerIn' = TRUE
         /\ peerType' = f.opcode
         /\ peerBuf' = f.payload
         /\ UNCHANGED << sent, peerOk >>

\* Websocket.recv keeping the reassembly state of the previous call
RecvCall_keepsLocals ==
    /\ rpc = "idle"
    /\ closeCalls < MaxNone
    /\ rpc' = "reading"
    /\ UNCHANGED recvLocals
    /\ UNCHANGED hsVars
    /\ UNCHANGED auxVars
    /\ UNCHANGED << mask, closed, status, reason, closeCalls, rd, connLost, wr, pend,
                    rret, delivered, lastFrame, nframes >>
    /\ UNCHANGED callVars
    /\ UNCHANGED peerVars

\* Websocket.recv: enter recv_entire_frame with fresh locals
RecvCall ==
    /\ rpc = "idle"
    /\ closeCalls < MaxNone
    /\ rpc' = "reading"
    /\ frag_start' = FALSE
    /\ frag_type' = BINARY
    /\ frag_buffer' = << >>
    /\ frag_decoder' = << >>
    /\ UNCHANGED hsVars
    /\ UNCHANGED auxVars
    /\ UNCHANGED << mask, closed, status, reason, closeCalls, rd, connLost, wr, pend,
                    rret, delivered, lastFrame, nframes >>
    /\ UNCHANGED callVars
    /\ UNCHANGED peerVars

\* the CLOSE answered with the default arguments of Websocket.close instead
\* of the resolved status and reason
RecvClose_defaults(r) ==
    LET c == ParseClose(r.payload)
    IN IF closed = FALSE
       THEN /\ closed' = TRUE
            /\ wr' = Append(wr, Written(send_close_frame(1000, Str(<< >>), mask), "recv"))
            /\ rpc' = "closing"
            /\ pend' = ClosedException(c.status, c.reason)
            /\ UNCHANGED << status, reason, closeCalls, rret >>
       ELSE /\ Handler(ClosedException(c.status, c.reason))
            /\ UNCHANGED << closed, wr >>

\* Websocket.close called by recv_entire_frame on a CLOSE frame, up to the
\* drain of send_close_frame; without a frame to send, the raise follows at once
RecvClose(r) ==
    LET c == ParseClose(r.payload)
    IN IF closed = FALSE
       THEN /\ closed' = TRUE
            /\ wr' = Append(wr, Written(send_close_frame(c.status, c.reason, mask), "recv"))
            /\ rpc' = "closing"
            /\ pend' = ClosedException(c.status, c.reason)
            /\ UNCHANGED << status, reason, closeCalls, rret >>
       ELSE /\ Handler(ClosedException(c.status, c.reason))
            /\ UNCHANGED << closed, wr >>

\* recv_entire_frame from one recv_frame to the next suspension or return, on
\* the frame f read from the reader
RecvStep(f) ==
    /\ rpc = "reading"
    /\ rd # "exc"
    /\ nframes' = nframes + 1
    /\ lastFrame' = f
    /\ PeerSends(f)
    /\ LET r == recv_frame(f)
           o == LoopStep(r, frag_start, frag_type, frag_buffer, frag_decoder)
       IN IF r.exc.kind # "none"
          THEN /\ Handler(r.exc)
               /\ UNCHANGED << closed, wr, delivered >>
               /\ UNCHANGED recvLocals
          ELSE IF r.opcode = CLOSE
          THEN /\ RecvClose(r)
               /\ UNCHANGED delivered
               /\ UNCHANGED recvLocals
          ELSE IF o.kind = "raise"
          THEN /\ Handler(o.exc)
               /\ UNCHANGED << closed, wr, delivered >>
               /\ UNCHANGED recvLocals
          ELSE /\ frag_start' = o.fs
               /\ frag_type' = o.ft
               /\ frag_buffer' = o.fb
               /\ frag_decoder' = o.fd
               /\ wr' = IF o.pong THEN Append(wr, Written(send_frame(FALSE, PONG, r.payload, FALSE), "recv"))
                        ELSE wr
               /\ IF o.kind = "ret"
                  THEN /\ delivered' = Append(delivered, o.msg)
                       /\ rret' = "msg"
                       /\ rpc' = "idle"
                  ELSE UNCHANGED << delivered, rret, rpc >>
               /\ UNCHANGED << closed, status, reason, closeCalls, pend >>
    /\ UNCHANGED hsVars
    /\ UNCHANGED auxVars
    /\ UNCHANGED << mask, rd, connLost >>
    /\ UNCHANGED callVars

\* RecvStep on one of the frames the model reads within its bound
RecvFrame(f) ==
    /\ nframes + ncalls < MaxOps
    /\ RecvStep(f)

\* RecvStep on the CLOSE frame the peer answers this endpoint's CLOSE with
PeerAnswers(p) ==
    /\ closed
    /\ closeCalls = 0
    /\ RecvStep(Frame(TRUE, 0, CLOSE, p))

\* reader.readexactly raises: the reader holds an exception, or it is at EOF
\* with less than a frame header left
ReadFail ==
    /\ rpc = "reading"
    /\ rd \in {"eof", "exc"}
    /\ Handler(IF rd = "exc" THEN OtherException("[Errno 104] Connection reset by peer")
               ELSE OtherException("0 bytes read on a total of 2 expected bytes"))
    /\ UNCHANGED hsVars
    /\ UNCHANGED auxVars
    /\ UNCHANGED << mask, closed, rd, connLost, wr, delivered, lastFrame, nframes >>
    /\ UNCHANGED recvLocals
    /\ UNCHANGED callVars
    /\ UNCHANGED peerVars

\* the drain of recv's CLOSE frame ends: it raised, or Websocket.close
\* returns and recv_entire_frame raises the ClosedException
RecvCloseDrain ==
    /\ rpc = "closing"
    /\ Handler(IF DrainException.kind # "none" THEN DrainException ELSE pend)
    /\ UNCHANGED hsVars
    /\ UNCHANGED auxVars
    /\ UNCHANGED << mask, closed, rd, connLost, wr, delivered, lastFrame, nframes >>
    /\ UNCHANGED recvLocals
    /\ UNCHANGED callVars
    /\ UNCHANGED peerVars

\* the task running recv is cancelled at its suspension point: CancelledError
\* is a BaseException, str(exp) is ''
RecvCancel ==
    /\ rpc \in {"reading", "closing"}
    /\ Handler(OtherException(""))
    /\ UNCHANGED hsVars
    /\ UNCHANGED auxVars
    /\ UNCHANGED << mask, closed, rd, connLost, wr, delivered, lastFrame, nframes >>
    /\ UNCHANGED recvLocals
    /\ UNCHANGED callVars
    /\ UNCHANGED peerVars

\* the transport is lost: the peer closed or reset the connection, or the
\* loop finishes a close this endpoint asked for (connection_lost(None))
ConnectionLost(how) ==
    /\ ~connLost
    /\ how = "exc" => closeCalls = 0
    /\ connLost' = TRUE
    /\ rd' = how
    /\ UNCHANGED hsVars
    /\ UNCHANGED auxVars
    /\ UNCHANGED << mask, closed, status, reason, closeCalls, wr, rpc, pend, rret,
                    delivered, lastFrame, nframes >>
    /\ UNCHANGED recvLocals
    /\ UNCHANGED callVars
    /\ UNCHANGED peerVars

(* --------------------------- caller operations ------------------------ *)
\* a caller operation starts: it is counted, and remembered as late when
\* writer.close() has already been called
CallStarts ==
    /\ spc = "idle"
    /\ nframes + ncalls < MaxOps
    /\ ncalls' = ncalls + 1
    /\ callLate' = (closeCalls > 0)

\* a caller operation that raises, and writes nothing, on a closed writer
CallerWrite_guarded(frame, flush) ==
    /\ CallStarts
    /\ IF closeCalls > 0
       THEN wr' = wr /\ spc' = "idle" /\ sres' = "raised"
       ELSE /\ wr' = Append(wr, Written(frame, "call"))
            /\ IF flush THEN spc' = "drain" /\ sres' = "-" ELSE spc' = "idle" /\ sres' = "ok"
    /\ UNCHANGED hsVars
    /\ UNCHANGED auxVars
    /\ UNCHANGED << mask, closed, status, reason, closeCalls, rd, connLost, rpc, pend,
                    rret, delivered, lastFrame, nframes >>
    /\ UNCHANGED recvLocals
    /\ UNCHANGED peerVars

\* send_frame called by a caller operation: the writes, then the drain when
\* flush is set
CallerWrite(frame, flush) ==
    /\ CallStarts
    /\ wr' = Append(wr, Written(frame, "call"))
    /\ IF flush THEN spc' = "drain" /\ sres' = "-" ELSE spc' = "idle" /\ sres' = "ok"
    /\ UNCHANGED hsVars
    /\ UNCHANGED auxVars
    /\ UNCHANGED << mask, closed, status, reason, closeCalls, rd, connLost, rpc, pend,
                    rret, delivered, lastFrame, nframes >>
    /\ UNCHANGED recvLocals
    /\ UNCHANGED peerVars

DataOpcode(data) == IF data.kind = "str" THEN TEXT ELSE BINARY

\* Websocket.close without the test of _closed
close_unguarded(st, rs) ==
    /\ CallStarts
    /\ closed' = TRUE
    /\ wr' = Append(wr, Written(send_close_frame(st, rs, mask), "call"))
    /\ spc' = "drain"
    /\ sres' = "-"
    /\ UNCHANGED hsVars
    /\ UNCHANGED auxVars
    /\ UNCHANGED << mask, status, reason, closeCalls, rd, connLost, rpc, pend,
                    rret, delivered, lastFrame, nframes >>
    /\ UNCHANGED recvLocals
    /\ UNCHANGED peerVars

\* Websocket.close closing the transport once its CLOSE frame is written
close_closesTransport(st, rs) ==
    /\ CallStarts
    /\ IF closed = FALSE
       THEN /\ closed' = TRUE
            /\ wr' = Append(wr, Written(send_close_frame(st, rs, mask), "call"))
            /\ closeCalls' = closeCalls + 1
            /\ spc' = "drain"
            /\ sres' = "-"
       ELSE /\ spc' = "idle"
            /\ sres' = "ok"
            /\ UNCHANGED << closed, wr, closeCalls >>
    /\ UNCHANGED hsVars
    /\ UNCHANGED auxVars
    /\ UNCHANGED << mask, status, reason, rd, connLost, rpc, pend,
                    rret, delivered, lastFrame, nframes >>
    /\ UNCHANGED recvLocals
    /\ UNCHANGED peerVars

\* Websocket.close
close(st, rs) ==
    /\ CallStarts
    /\ IF closed = FALSE
       THEN /\ closed' = TRUE
            /\ wr' = Append(wr, Written(send_close_frame(st, rs, mask), "call"))
            /\ spc' = "drain"
            /\ sres' = "-"
       ELSE /\ spc' = "idle"
            /\ sres' = "ok"
            /\ UNCHANGED << closed, wr >>
    /\ UNCHANGED hsVars
    /\ UNCHANGED auxVars
    /\ UNCHANGED << mask, status, reason, closeCalls, rd, connLost, rpc, pend,
                    rret, delivered, lastFrame, nframes >>
    /\ UNCHANGED recvLocals
    /\ UNCHANGED peerVars

\* Websocket.send
send(data, flush) ==
    CallerWrite(send_frame(FALSE, DataOpcode(data), PayloadOf(data), mask), flush)

\* Websocket.send_fragment_start
send_fragment_start(data, flush) ==
    CallerWrite(send_frame(TRUE, DataOpcode(data), PayloadOf(data), mask), flush)

\* Websocket.send_fragment
send_fragment(data, flush) ==
    CallerWrite(send_frame(TRUE, STREAM, PayloadOf(data), mask), flush)

\* Websocket.send_fragment_end
send_fragment_end(data, flush) ==
    CallerWrite(send_frame(FALSE, STREAM, PayloadOf(data), mask), flush)

\* Websocket.ping with send_frame's default mask = False
ping_unmasked(data, flush) ==
    CallerWrite(send_frame(FALSE, PING, PayloadOf(data), FALSE), flush)

\* Websocket.ping
ping(data, flush) ==
    CallerWrite(send_frame(FALSE, PING, PayloadOf(data), mask), flush)

\* the drain a caller operation waits in ends: it returns or raises
CallerDrain ==
    /\ spc = "drain"
    /\ spc' = "idle"
    /\ sres' = IF DrainException.kind # "none" THEN "raised" ELSE "ok"
    /\ UNCHANGED hsVars
    /\ UNCHANGED auxVars
    /\ UNCHANGED << mask, closed, status, reason, closeCalls, rd, connLost, wr, rpc, pend,
                    rret, delivered, lastFrame, nframes, callLate, ncalls >>
    /\ UNCHANGED recvLocals
    /\ UNCHANGED peerVars

(* ------------------------- opening handshake -------------------------- *)
\* _WEBSOCKET_MAX_HEADER is 65536 in the source; the model scales it to 10
\* so that a header block around the limit can be enumerated.
WEBSOCKET_MAX_HEADER == 10

\* the fields of the Websocket the handshake leaves alone
wsVars == << closed, status, reason, rd, connLost, wr, rpc, pend,
             frag_start, frag_type, frag_buffer, frag_decoder, rret, delivered,
             lastFrame, spc, sres, callLate, nframes, ncalls,
             sent, peerBuf, peerType, peerIn, peerOk >>

ProtocolError(text) == [kind |-> "ProtocolError", status |-> 0, reason |-> Lit(text)]

\* Header lines as bytes.  'G\r\n' stands for a well-formed request line,
\* 'H\r\n' for a well-formed status line, 'K\r\n' for a Sec-WebSocket-Key
\* header, 'A' a '\r\n' for a Sec-WebSocket-Accept header with the value a.
RequestLine == << 71, 13, 10 >>
StatusLine == << 72, 13, 10 >>
KeyHeader == << 75, 13, 10 >>
AcceptHeader(a) == << 65, a, 13, 10 >>
CRLF == << 13, 10 >>

\* base64(sha1(key + _GUID_STRING)), as an injective function of the key
Digest(k) == 100 + k

\* header in b'\r\n', for a header that is not empty: a contiguous part of
\* the two bytes
InCRLF(header) == header \in { << 13 >>, << 10 >>, << 13, 10 >> }

\* len(header_buffer)
RECURSIVE BufferBytes(_)
BufferBytes(buf) == IF buf = << >> THEN 0 ELSE Len(buf[1]) + BufferBytes(Tail(buf))

\* HTTPRequest(header_buffer): parse_request accepts the request line
RequestParsed(buf) == buf # << >> /\ buf[1] = RequestLine

\* request.headers['sec-websocket-key'] is not None
HasKey(buf) == \E i \in 2..Len(buf) : buf[i] = KeyHeader

\* HTTPResponse.begin() accepts the status line
ResponseParsed(buf) == buf # << >> /\ buf[1] = StatusLine

\* response.getheader('sec-websocket-accept'): the value of the first such
\* header, 0 for None
GetAccept(buf) ==
    LET idx == { i \in 2..Len(buf) : Len(buf[i]) = 4 /\ buf[i][1] = 65 }
    IN IF idx = {} THEN 0
       ELSE buf[CHOOSE i \in idx : \A j \in idx : i <= j][2]

\* an entry of hwr; late marks a write made after writer.close()
HsWritten(what, body) == [late |-> closeCalls > 0, what |-> what, body |-> body]

\* one turn of the loop of handshake_with_client on the line header, and
\* the parsing of the request once the loop ends
handshake_with_client(buf, header) ==
    LET b2 == Append(buf, header)
        raise(e) == [kind |-> "raise", exc |-> e, buf |-> b2]
    IN IF Len(header) = 0
       THEN [kind |-> "raise", exc |-> ClosedException(1002, Lit("no data from endpoint")),
             buf |-> buf]
       ELSE IF BufferBytes(b2) > WEBSOCKET_MAX_HEADER
       THEN raise(ClosedException(1009, Lit("header too large")))
       ELSE IF ~InCRLF(header) THEN [kind |-> "more", exc |-> NoException, buf |-> b2]
       ELSE IF ~RequestParsed(b2)
       THEN raise(OtherException("'HTTPRequest' object has no attribute 'headers'"))
       ELSE IF ~HasKey(b2)
       THEN raise(ClosedException(1002, Lit("Sec-WebSocket-Key does not exist")))
       ELSE [kind |-> "ok", exc |-> NoException, buf |-> b2]

\* the except BaseException clause of handshake_with_client (400 response,
\* writer.close(), raise), then handle_server_websocket: except, pass, and
\* writer.close() in its finally
ServerHandshakeFails(exc) ==
    /\ hwr' = Append(hwr, HsWritten("400", exc.reason))
    /\ closeCalls' = closeCalls + 2
    /\ hexc' = IF exc.kind = "ClosedException" THEN exc ELSE ClosedException(1002, exc.reason)
    /\ hpc' = "end"
    /\ UNCHANGED hres

\* handshake_with_client reads one line
ServerReadline(header) ==
    /\ hrole = "server"
    /\ hpc = "readline"
    /\ rd # "exc"
    /\ header = << >> => rd = "eof"
    /\ LET o == handshake_with_client(header_buffer, header)
       IN /\ header_buffer' = o.buf
          /\ IF o.kind = "raise" THEN ServerHandshakeFails(o.exc)
             ELSE IF o.kind = "ok"
             THEN /\ hwr' = Append(hwr, HsWritten("101", Lit("")))
                  /\ hpc' = "drain"
                  /\ UNCHANGED << closeCalls, hexc, hres >>
             ELSE UNCHANGED << hwr, hpc, closeCalls, hexc, hres >>
    /\ UNCHANGED << mask, hrole, auto_handshake, key, url, port >>
    /\ UNCHANGED wsVars
    /\ UNCHANGED auxVars

\* reader.readline raises the reader's exception
ServerReadFail ==
    /\ hrole = "server"
    /\ hpc = "readline"
    /\ rd = "exc"
    /\ ServerHandshakeFails(OtherException("[Errno 104] Connection reset by peer"))
    /\ UNCHANGED << mask, hrole, auto_handshake, header_buffer, key, url, port >>
    /\ UNCHANGED wsVars
    /\ UNCHANGED auxVars

\* the drain of the 101 response ends: handshake_with_client returns the
\* request and handle_server_websocket calls func, or the drain raises
ServerDrain ==
    /\ hrole = "server"
    /\ hpc = "drain"
    /\ IF DrainException.kind = "none"
       THEN /\ hpc' = "func"
            /\ hres' = "func"
            /\ UNCHANGED << hwr, closeCalls, hexc >>
       ELSE ServerHandshakeFails(DrainException)
    /\ UNCHANGED << mask, hrole, auto_handshake, header_buffer, key, url, port >>
    /\ UNCHANGED wsVars
    /\ UNCHANGED auxVars

\* asyncio.wait_for runs out of _WEBSOCKET_HANDSHAKE_TIMEOUT and cancels
\* handshake_with_client, whose except CancelledError clause writes the 400
\* response, closes the writer and returns None.  Depending on the asyncio
\* of the interpreter (Python >= 3.4), wait_for raises TimeoutError before
\* the cancelled coroutine has run (how = "raise"), waits for it and then
\* raises TimeoutError (how = "wait"), or waits for it and returns its
\* result (how = "result").
wait_for_timeout(how) ==
    /\ hrole = "server"
    /\ hpc \in {"readline", "drain"}
    /\ IF how = "raise"
       THEN /\ closeCalls' = closeCalls + 1
            /\ hpc' = "cancelling"
            /\ hexc' = OtherException("TimeoutError")
            /\ UNCHANGED << hwr, hres >>
       ELSE IF how = "wait"
       THEN /\ hwr' = Append(hwr, HsWritten("400", Lit("")))
            /\ closeCalls' = closeCalls + 2
            /\ hpc' = "end"
            /\ hexc' = OtherException("TimeoutError")
            /\ UNCHANGED hres
       ELSE /\ hwr' = Append(hwr, HsWritten("400", Lit("")))
            /\ closeCalls' = closeCalls + 1
            /\ hpc' = "func"
            /\ hres' = "func"
            /\ UNCHANGED hexc
    /\ UNCHANGED << mask, hrole, auto_handshake, header_buffer, key, url, port >>
    /\ UNCHANGED wsVars
    /\ UNCHANGED auxVars

\* the cancelled handshake_with_client runs its except CancelledError
\* clause after handle_server_websocket has ended
ServerCancelled ==
    /\ hrole = "server"
    /\ hpc = "cancelling"
    /\ hwr' = Append(hwr, HsWritten("400", Lit("")))
    /\ closeCalls' = closeCalls + 1
    /\ hpc' = "end"
    /\ UNCHANGED << mask, hrole, auto_handshake, header_buffer, key, url, port, hres, hexc >>
    /\ UNCHANGED wsVars
    /\ UNCHANGED auxVars

\* func returns or raises: the finally clause of handle_server_websocket
handle_server_websocket_finally ==
    /\ hrole = "server"
    /\ hpc = "func"
    /\ closeCalls' = closeCalls + 1
    /\ hpc' = "end"
    /\ UNCHANGED << mask, hrole, auto_handshake, header_buffer, hwr, key, url, port, hres, hexc >>
    /\ UNCHANGED wsVars
    /\ UNCHANGED auxVars

\* str.startswith
StartsWith(str, prefix) == Len(str) >= Len(prefix) /\ SubSeq(str, 1, Len(prefix)) = prefix

\* the port connect passes to open_connection; u.scheme is the scheme
\* urlparse returns ('ws', 'wss'), u.port is 0 for a URL without a port
ConnectPort(u) ==
    LET p == IF u.port # 0 THEN u.port ELSE 80
    IN IF StartsWith(u.scheme, << "w", "s", "s", ":", "/", "/" >>) /\ u.port = 0 THEN 443 ELSE p

\* the except BaseException clause of connect, with a writer
ConnectFails(exc) ==
    /\ closeCalls' = closeCalls + 1
    /\ hres' = "raised"
    /\ hexc' = exc
    /\ hpc' = "end"
    /\ UNCHANGED mask

\* connect up to the first drain of handshake_with_server: the port, the
\* connection, the random key, the request
connect(ok, k) ==
    /\ hrole = "client"
    /\ hpc = "start"
    /\ port' = ConnectPort(url)
    /\ IF ok
       THEN /\ key' = k
            /\ hwr' = Append(hwr, HsWritten("request", Lit("")))
            /\ hpc' = "drain"
            /\ UNCHANGED << hres, hexc >>
       ELSE /\ hres' = "raised"
            /\ hexc' = OtherException("[Errno 111] Connect call failed")
            /\ hpc' = "end"
            /\ UNCHANGED << key, hwr >>
    /\ UNCHANGED << mask, closeCalls, hrole, auto_handshake, header_buffer, url >>
    /\ UNCHANGED wsVars
    /\ UNCHANGED auxVars

\* the drain of the request ends
ClientDrain ==
    /\ hrole = "client"
    /\ hpc = "drain"
    /\ IF DrainException.kind = "none"
       THEN /\ hpc' = "readline"
            /\ UNCHANGED << mask, closeCalls, hres, hexc >>
       ELSE ConnectFails(DrainException)
    /\ UNCHANGED << hrole, auto_handshake, header_buffer, hwr, key, url, port >>
    /\ UNCHANGED wsVars
    /\ UNCHANGED auxVars

\* one turn of the loop of handshake_with_server on the line header, and
\* the check of the response once the loop ends
handshake_with_server(buf, header, k) ==
    LET b2 == Append(buf, header)
        raise(e) == [kind |-> "raise", exc |-> e, buf |-> b2]
    IN IF Len(header) = 0
       THEN [kind |-> "raise", exc |-> ProtocolError("no data from endpoint"), buf |-> buf]
       ELSE IF BufferBytes(b2) > WEBSOCKET_MAX_HEADER
       THEN raise(ProtocolError("header too large"))
       ELSE IF ~InCRLF(header) THEN [kind |-> "more", exc |-> NoException, buf |-> b2]
       ELSE IF ~ResponseParsed(b2) THEN raise(OtherException("BadStatusLine"))
       ELSE IF GetAccept(b2) = 0
       THEN raise(OtherException("'NoneType' object has no attribute 'encode'"))
       ELSE IF GetAccept(b2) # Digest(k)
       THEN raise(ProtocolError("Sec-WebSocket-Accept key does not match"))
       ELSE [kind |-> "ok", exc |-> NoException, buf |-> b2]

\* handshake_with_server reads one line; on the accepted response connect
\* makes the Websocket, sets _mask and returns it
ClientReadline(header) ==
    /\ hrole = "client"
    /\ hpc = "readline"
    /\ rd # "exc"
    /\ header = << >> => rd = "eof"
    /\ LET o == handshake_with_server(header_buffer, header, key)
       IN /\ header_buffer' = o.buf
          /\ IF o.kind = "raise" THEN ConnectFails(o.exc)
             ELSE IF o.kind = "ok"
             THEN /\ mask' = TRUE
                  /\ hres' = "websocket"
                  /\ hpc' = "end"
                  /\ UNCHANGED << closeCalls, hexc >>
             ELSE UNCHANGED << mask, hpc, closeCalls, hexc, hres >>
    /\ UNCHANGED << hrole, auto_handshake, hwr, key, url, port >>
    /\ UNCHANGED wsVars
    /\ UNCHANGED auxVars

\* reader.readline raises the reader's exception
ClientReadFail ==
    /\ hrole = "client"
    /\ hpc = "readline"
    /\ rd = "exc"
    /\ ConnectFails(OtherException("[Errno 104] Connection reset by peer"))
    /\ UNCHANGED << hrole, auto_handshake, header_buffer, hwr, key, url, port >>
    /\ UNCHANGED wsVars
    /\ UNCHANGED auxVars

\* the task running connect is cancelled in handshake_with_server: its
\* except CancelledError clause closes the writer and returns None, and
\* connect goes on to make and return the Websocket
ClientCancel ==
    /\ hrole = "client"
    /\ hpc \in {"drain", "readline"}
    /\ closeCalls' = closeCalls + 1
    /\ mask' = TRUE
    /\ hres' = "websocket"
    /\ hpc' = "end"
    /\ UNCHANGED << hrole, auto_handshake, header_buffer, hwr, key, url, port, hexc >>
    /\ UNCHANGED wsVars
    /\ UNCHANGED auxVars

\* the transport is lost during the handshake
TransportLost(how) ==
    /\ hpc \in {"drain", "readline"}
    /\ ConnectionLost(how)

(* ----------------------------- frame codec ---------------------------- *)
\* a ^ b on the n low bits
RECURSIVE XorBits(_, _, _)
XorBits(a, b, n) ==
    IF n = 0 THEN 0
    ELSE (((a % 2) + (b % 2)) % 2) + 2 * XorBits(a \div 2, b \div 2, n - 1)

\* struct.pack of an unsigned integer on n bytes, big-endian ('!H': 2,
\* '!I': 4, '!Q': 8)
RECURSIVE Pack(_, _)
Pack(v, n) == IF n = 0 THEN << >> ELSE Append(Pack(v \div 256, n - 1), v % 256)

\* struct.unpack_from of a big-endian unsigned integer
RECURSIVE Unpack(_)
Unpack(bs) == IF bs = << >> THEN 0 ELSE Unpack(SubSeq(bs, 1, Len(bs) - 1)) * 256 + bs[Len(bs)]

\* bytes(b ^ mask[i % 4] for i, b in enumerate(data)); Python counts i from 0
MaskData(data, mask4) == [i \in 1..Len(data) |-> XorBits(data[i], mask4[((i - 1) % 4) + 1], 8)]

\* the header send_frame hands to writer.write: b1 has 0x80 when the fin
\* argument is False, b2 the mask bit and the length or its marker
FrameHeader(fin, opcode, data, msk) ==
    LET b1 == (IF fin = FALSE THEN 128 ELSE 0) + opcode
        m == IF msk THEN 128 ELSE 0
        length == Len(data)
    IN IF length <= 125 THEN << b1, m + length >>
       ELSE IF length >= 126 /\ length <= 65535 THEN << b1, m + 126 >> \o Pack(length, 2)
       ELSE << b1, m + 127 >> \o Pack(length, 8)

\* all the bytes send_frame writes: the header, the mask key when mask is
\* set (mask_bits = random.getrandbits(32)), the payload when it is not empty
FrameBytes(fin, opcode, data, msk, mask_bits) ==
    FrameHeader(fin, opcode, data, msk)
    \o (IF msk THEN Pack(mask_bits, 4) ELSE << >>)
    \o (IF msk THEN MaskData(data, Pack(mask_bits, 4)) ELSE data)

\* what recv_frame's readexactly calls take from a reader that holds the
\* bytes bs of one whole frame
FrameOfBytes(bs) ==
    LET h1 == bs[1]
        h2 == bs[2]
        len7 == h2 % 128
        ext == IF len7 = 126 THEN 2 ELSE IF len7 = 127 THEN 8 ELSE 0
        length == IF ext = 0 THEN len7 ELSE Unpack(SubSeq(bs, 3, 2 + ext))
        masked == h2 >= 128
        at == 3 + ext + (IF masked THEN 4 ELSE 0)
        raw == SubSeq(bs, at, at + length - 1)
    IN [fin |-> h1 >= 128,
        rsv |-> ((h1 \div 16) % 8) * 16,
        opcode |-> h1 % 16,
        payload |-> IF masked /\ length > 0 THEN MaskData(raw, SubSeq(bs, at - 4, at - 1)) ELSE raw,
        len7 |-> len7,
        length |-> length]

\* send_frame writes the frame of the arguments cin
CodecSend ==
    /\ cpc = "args"
    /\ cbytes' = FrameBytes(cin.fin, cin.opcode, cin.data, cin.mask, cin.mask_bits)
    /\ cpc' = "written"
    /\ UNCHANGED << cin, cout >>
    /\ UNCHANGED streamVars
    /\ UNCHANGED << mask, closeCalls >>
    /\ UNCHANGED hsVars
    /\ UNCHANGED wsVars

\* recv_frame reads these bytes
CodecRecv ==
    /\ cpc = "written"
    /\ cout' = recv_frame(FrameOfBytes(cbytes))
    /\ cpc' = "read"
    /\ UNCHANGED << cin, cbytes >>
    /\ UNCHANGED streamVars
    /\ UNCHANGED << mask, closeCalls >>
    /\ UNCHANGED hsVars
    /\ UNCHANGED wsVars

(* ----------------------------- write stream --------------------------- *)
\* Tasks of one event loop: a task runs until it suspends in a yield from;
\* the loop then resumes another one.  send_frame is followed one
\* writer.write at a time.
StreamUnchanged ==
    /\ UNCHANGED codecVars
    /\ UNCHANGED << mask, closeCalls >>
    /\ UNCHANGED hsVars
    /\ UNCHANGED wsVars

\* a chunk handed to writer.write by task t for its current frame
Chunk(t, bs) == [bytes |-> bs, id |-> targs[t].id, task |-> t]

\* the loop resumes a suspended task; a drain it waited in returns
Resume(t) ==
    /\ running = "loop"
    /\ tpc[t] # "off"
    /\ running' = t
    /\ tpc' = [tpc EXCEPT ![t] = IF @ = "drain" THEN "ready" ELSE @]
    /\ UNCHANGED << targs, out, started >>
    /\ StreamUnchanged

\* the running task suspends outside send_frame (recv waits in recv_frame,
\* a caller task waits for its next event)
Suspend(t) ==
    /\ running = t
    /\ tpc[t] = "ready"
    /\ running' = "loop"
    /\ UNCHANGED << tpc, targs, out, started >>
    /\ StreamUnchanged

\* the running task enters send_frame with the arguments a
SendFrameCall(t, a) ==
    /\ running = t
    /\ tpc[t] = "ready"
    /\ Len(started) < MaxOps
    /\ targs' = [targs EXCEPT ![t] = [a EXCEPT !.id = Len(started) + 1]]
    /\ tpc' = [tpc EXCEPT ![t] = "header"]
    /\ UNCHANGED << running, out, started >>
    /\ StreamUnchanged

\* writer.write(header), followed by a suspension of the task
WriteHeader_thenYield(t) ==
    /\ running = t
    /\ tpc[t] = "header"
    /\ out' = Append(out, Chunk(t, FrameHeader(targs[t].fin, targs[t].opcode, targs[t].data,
                                                targs[t].mask)))
    /\ started' = Append(started, FrameBytes(targs[t].fin, targs[t].opcode, targs[t].data,
                                             targs[t].mask, targs[t].mask_bits))
    /\ tpc' = [tpc EXCEPT ![t] = IF targs[t].mask THEN "mask"
                                 ELSE IF Len(targs[t].data) > 0 THEN "data" ELSE "flush"]
    /\ running' = "loop"
    /\ UNCHANGED targs
    /\ StreamUnchanged

\* writer.write(header)
WriteHeader(t) ==
    /\ running = t
    /\ tpc[t] = "header"
    /\ out' = Append(out, Chunk(t, FrameHeader(targs[t].fin, targs[t].opcode, targs[t].data,
                                                targs[t].mask)))
    /\ started' = Append(started, FrameBytes(targs[t].fin, targs[t].opcode, targs[t].data,
                                             targs[t].mask, targs[t].mask_bits))
    /\ tpc' = [tpc EXCEPT ![t] = IF targs[t].mask THEN "mask"
                                 ELSE IF Len(targs[t].data) > 0 THEN "data" ELSE "flush"]
    /\ UNCHANGED << running, targs >>
    /\ StreamUnchanged

\* writer.write(mask_bits)
WriteMask(t) ==
    /\ running = t
    /\ tpc[t] = "mask"
    /\ out' = Append(out, Chunk(t, Pack(targs[t].mask_bits, 4)))
    /\ tpc' = [tpc EXCEPT ![t] = IF Len(targs[t].data) > 0 THEN "data" ELSE "flush"]
    /\ UNCHANGED << running, targs, started >>
    /\ StreamUnchanged

\* writer.write(data)
WriteData(t) ==
    /\ running = t
    /\ tpc[t] = "data"
    /\ out' = Append(out, Chunk(t, IF targs[t].mask
                                   THEN MaskData(targs[t].data, Pack(targs[t].mask_bits, 4))
                                   ELSE targs[t].data))
    /\ tpc' = [tpc EXCEPT ![t] = "flush"]
    /\ UNCHANGED << running, targs, started >>
    /\ StreamUnchanged

\* the end of send_frame: with flush the task suspends in writer.drain(),
\* without it send_frame returns and the task runs on
Flush(t) ==
    /\ running = t
    /\ tpc[t] = "flush"
    /\ IF targs[t].flush
       THEN /\ tpc' = [tpc EXCEPT ![t] = "drain"]
            /\ running' = "loop"
       ELSE /\ tpc' = [tpc EXCEPT ![t] = "ready"]
            /\ UNCHANGED running
    /\ UNCHANGED << targs, out, started >>
    /\ StreamUnchanged

(* ------------------------------- inputs ------------------------------- *)
\* payloads of the CLOSE frames the peer sends: empty, one byte, 1000,
\* 1001, 1004 (not a close code), 3500 (inside 3000..3999), 5000, and 1000
\* with the reason 'A' and with a reason that is not UTF-8
ClosePayloads ==
    { << >>, << 3 >>, << 3, 232 >>, << 3, 233 >>, << 3, 236 >>, << 13, 172 >>,
      << 19, 136 >>, << 3, 232, 65 >>, << 3, 232, 169 >> }

\* the frames of the close machine's runs: three CLOSE frames, one frame of
\* each data and control kind, and one frame for each protocol violation
\* recv_frame and the loop detect
MachineFrames ==
    { Frame(TRUE, 0, CLOSE, p) : p \in {<< >>, << 3, 232, 65 >>, << 3, 232, 169 >>} }
    \cup { Frame(TRUE, 0, TEXT, << 65 >>), Frame(TRUE, 0, PING, << 65 >>),
           Frame(FALSE, 0, BINARY, << 65 >>),
           Frame(TRUE, 64, TEXT, << 65 >>), Frame(TRUE, 0, 3, << >>),
           Frame(TRUE, 0, TEXT, << 169 >>), Frame(FALSE, 0, TEXT, << 169 >>),
           Frame(TRUE, 0, BINARY, << 65, 65, 65, 65 >>) }

\* payloads of the assembler's runs: ASCII, the two bytes of U+00E9 together
\* and apart, and one payload longer than WEBSOCKET_MAX_PAYLOAD
DataPayloads ==
    { << >>, << 65 >>, << 195 >>, << 169 >>, << 65, 65 >>, << 195, 169 >>,
      << 65, 65, 65, 65 >> }

AsmFrames ==
    { Frame(fin, 0, op, p) : fin \in BOOLEAN, op \in {STREAM, TEXT, BINARY}, p \in DataPayloads }
    \cup { Frame(TRUE, 0, PING, << 65 >>), Frame(TRUE, 0, PONG, << 65 >>),
           Frame(FALSE, 0, PING, << 65 >>), Frame(TRUE, 0, CLOSE, << >>) }

SendData == { Str(<< 233 >>) }
CloseArgs == { << 1001, Str(<< 65 >>) >> }

\* the keys connect draws, the URLs it is given (with and without a port)
Keys == {1, 2}
Urls == { [port |-> p, scheme |-> sc] : sc \in { << "w", "s" >>, << "w", "s", "s" >> },
                                         p \in {0, 8080} }

\* the lines the server's reader returns (b'' at EOF), and the client's
ServerLines == { RequestLine, KeyHeader, CRLF, << 10 >>, << >> }
ClientLines == { StatusLine, AcceptHeader(Digest(1)), AcceptHeader(Digest(2)), CRLF, << 10 >>, << >> }


\* the arguments of send_frame: payloads up to WEBSOCKET_MAX_PAYLOAD, and the
\* mask keys 00 00 00 00, 01 02 04 08 and 7F FF FF FF
CodecPayloads == { << >>, << 65 >>, << 0, 255 >>, << 195, 169, 128 >> }
MaskKeys == { 0, 16909320, 2147483647 }
CodecArgs ==
    { [data |-> d, fin |-> f, opcode |-> op, mask |-> m, mask_bits |-> k] :
          f \in BOOLEAN, op \in {STREAM, TEXT, BINARY, CLOSE, PING, PONG},
          d \in CodecPayloads, m \in BOOLEAN, k \in MaskKeys }

\* the send_frame calls of the operations: send and ping with and without
\* flush, send_fragment_start, close (always flushed), all with the
\* endpoint's mask; and the PONG reply of recv
CallerArgs ==
    { [data |-> << 65 >>, fin |-> FALSE, opcode |-> op, mask |-> mask, mask_bits |-> 16909320,
       flush |-> fl, id |-> 0] : op \in {TEXT, PING}, fl \in BOOLEAN }
    \cup { [data |-> << 65 >>, fin |-> TRUE, opcode |-> BINARY, mask |-> mask,
            mask_bits |-> 16909320, flush |-> FALSE, id |-> 0],
           [data |-> << 3, 232 >>, fin |-> FALSE, opcode |-> CLOSE, mask |-> mask,
            mask_bits |-> 16909320, flush |-> TRUE, id |-> 0] }
PongArgs ==
    { [data |-> d, fin |-> FALSE, opcode |-> PONG, mask |-> FALSE, mask_bits |-> 0,
       flush |-> FALSE, id |-> 0] : d \in { << >>, << 65 >> } }
ArgsOf(t) == IF t = "recv" THEN PongArgs ELSE CallerArgs

(* --------------------------- specifications --------------------------- *)
\* the close machine: the recv task, the calling task and the transport
Next ==
    \/ RecvCall
    \/ \E f \in MachineFrames : RecvFrame(f)
    \/ ReadFail
    \/ RecvCloseDrain
    \/ RecvCancel
    \/ \E how \in {"eof", "exc"} : ConnectionLost(how)
    \/ \E a \in CloseArgs : close(a[1], a[2])
    \/ \E d \in SendData, fl \in BOOLEAN : send(d, fl)
    \/ \E d \in SendData, fl \in BOOLEAN : send_fragment_start(d, fl)
    \/ \E d \in SendData, fl \in BOOLEAN : send_fragment(d, fl)
    \/ \E d \in SendData, fl \in BOOLEAN : send_fragment_end(d, fl)
    \/ \E d \in SendData, fl \in BOOLEAN : ping(d, fl)
    \/ CallerDrain

Spec == Init /\ [][Next]_vars

\* the message assembler: the recv task alone, on the peer's data frames
NextAsm ==
    \/ RecvCall
    \/ \E f \in AsmFrames : RecvFrame(f)
    \/ RecvCloseDrain

SpecAsm == Init /\ [][NextAsm]_vars

\* the close parser: the recv task alone, on the peer's CLOSE frames
NextParse ==
    \/ RecvCall
    \/ \E p \in ClosePayloads, fin \in BOOLEAN : RecvFrame(Frame(fin, 0, CLOSE, p))
    \/ RecvCloseDrain

SpecParse == Init /\ [][NextParse]_vars

\* the opening handshake: connect on the client, handle_server_websocket on
\* the server
InitHs ==
    /\ mask = FALSE
    /\ WebsocketInit
    /\ hrole \in {"client", "server"}
    /\ auto_handshake \in (IF hrole = "server" THEN BOOLEAN ELSE {FALSE})
    /\ hpc = IF hrole = "client" THEN "start" ELSE IF auto_handshake THEN "readline" ELSE "func"
    /\ hres = IF hrole = "server" /\ ~auto_handshake THEN "func" ELSE "-"
    /\ url \in (IF hrole = "client" THEN Urls ELSE {NoUrl})
    /\ header_buffer = << >>
    /\ hwr = << >>
    /\ key = 0
    /\ port = 0
    /\ hexc = NoException
    /\ CodecOff
    /\ StreamOff

NextHs ==
    \/ \E ok \in BOOLEAN, k \in Keys : connect(ok, k)
    \/ ClientDrain
    \/ \E h \in ClientLines : ClientReadline(h)
    \/ ClientReadFail
    \/ ClientCancel
    \/ \E h \in ServerLines : ServerReadline(h)
    \/ ServerReadFail
    \/ ServerDrain
    \/ \E how \in {"raise", "wait", "result"} : wait_for_timeout(how)
    \/ ServerCancelled
    \/ handle_server_websocket_finally
    \/ \E how \in {"eof", "exc"} : TransportLost(how)

SpecHs == InitHs /\ [][NextHs]_vars

\* the close handshake started by this endpoint: the peer goes on sending
\* data for a while and answers the CLOSE; the caller keeps calling recv
AnswerPayloads == { << >>, << 3, 232, 65 >> }
ClosingFrames == { Frame(TRUE, 0, TEXT, << 65 >>), Frame(TRUE, 0, PING, << 65 >>) }

NextClose ==
    \/ RecvCall
    \/ \E f \in ClosingFrames : RecvFrame(f)
    \/ \E p \in AnswerPayloads : PeerAnswers(p)
    \/ ReadFail
    \/ \E how \in {"eof", "exc"} : ConnectionLost(how)
    \/ \E a \in CloseArgs : close(a[1], a[2])
    \/ \E d \in SendData, fl \in BOOLEAN : send(d, fl)
    \/ CallerDrain

\* recv is called again whenever it has returned, the peer's answer
\* arrives, and a read on a failed transport raises
SpecClose ==
    /\ Init
    /\ [][NextClose]_vars
    /\ WF_vars(RecvCall)
    /\ WF_vars(\E p \in AnswerPayloads : PeerAnswers(p))
    /\ WF_vars(ReadFail)

\* the frame codec: send_frame on every argument tuple, recv_frame on its
\* bytes
InitCodec ==
    /\ mask = FALSE
    /\ WebsocketInit
    /\ HandshakeOff
    /\ cin \in CodecArgs
    /\ cbytes = << >>
    /\ cout = NoResult
    /\ cpc = "args"
    /\ StreamOff

NextCodec ==
    \/ CodecSend
    \/ CodecRecv

SpecCodec == InitCodec /\ [][NextCodec]_vars

\* the write stream: three tasks of one loop writing frames to one writer
InitStream ==
    /\ mask \in BOOLEAN
    /\ WebsocketInit
    /\ HandshakeOff
    /\ CodecOff
    /\ running = "loop"
    /\ tpc = [t \in Tasks |-> "ready"]
    /\ targs = [t \in Tasks |-> NoCall]
    /\ out = << >>
    /\ started = << >>

NextStream ==
    \/ \E t \in Tasks : Resume(t)
    \/ \E t \in Tasks : Suspend(t)
    \/ \E t \in Tasks : \E a \in ArgsOf(t) : SendFrameCall(t, a)
    \/ \E t \in Tasks : WriteHeader(t)
    \/ \E t \in Tasks : WriteMask(t)
    \/ \E t \in Tasks : WriteData(t)
    \/ \E t \in Tasks : Flush(t)

SpecStream == InitStream /\ [][NextStream]_vars

(* ------------------------------- claims ------------------------------- *)
CloseFrames == { i \in DOMAIN wr : wr[i].opcode = CLOSE }

\* C1: over every interleaving of caller close() calls and received CLOSE
\* frames, the endpoint hands at most one CLOSE frame to the writer.
C1_AtMostOneClose == Cardinality(CloseFrames) <= 1

\* two caller operations of which only one wrote (close twice), then the
\* peer's CLOSE (1000, 'A') read by recv: one CLOSE frame only
C1_Witness ==
    /\ ncalls = 2
    /\ Len(wr) = 1
    /\ wr[1].opcode = CLOSE
    /\ wr[1].by = "call"
    /\ lastFrame = Frame(TRUE, 0, CLOSE, << 3, 232, 65 >>)
    /\ rret = "None"
    /\ status = 1000

\* the frames caller operations handed to the writer after writer.close()
LateCallerFrames == { i \in DOMAIN wr : wr[i].by = "call" /\ wr[i].late }

\* C2 (as claimed): a caller operation begun after the connection is Closed
\* fails and hands no frame to the writer.
C2_SendsFailAfterClosed ==
    /\ LateCallerFrames = {}
    /\ (callLate /\ spc = "idle") => sres = "raised"

\* C2 (amended): once the connection is Closed, a close() after a CLOSE frame
\* has been sent is a no-op that returns normally; every other send,
\* send_fragment_start/send_fragment/send_fragment_end, ping or close call
\* still hands its frame to the closed writer.  A call without flush returns
\* normally; a call that waits in the drain fails exactly when the
\* connection has been lost by then.
C2_LateCallsStillWrite ==
    [][/\ (closeCalls > 0 /\ ncalls' = ncalls + 1)
            => /\ callLate'
               /\ spc' = "idle" => sres' = "ok"
               /\ IF wr' = wr THEN closed /\ spc' = "idle"
                  ELSE /\ Len(wr') = Len(wr) + 1
                       /\ wr'[Len(wr')].late
                       /\ wr'[Len(wr')].by = "call"
       /\ (callLate /\ spc = "drain" /\ spc' = "idle")
            => (sres' = "raised" <=> connLost)]_vars

\* a send without flush after recv returned None: it returned normally and
\* its frame went to the closed writer
C2_Witness ==
    /\ rret = "None"
    /\ closeCalls = 1
    /\ callLate
    /\ spc = "idle"
    /\ sres = "ok"
    /\ LateCallerFrames # {}

\* the reasons of the protocol violations recv_frame and the loop detect
ViolationReasons ==
    { Lit("RSV bit must be 0"), Lit("unknown opcode"), Lit("payload too large"),
      Lit("control frame length can not be > 125"),
      Lit("control messages can not be fragmented"),
      Lit("fragmentation protocol error"), Lit("invalid utf-8 payload"),
      Lit("'utf-8' codec can't decode bytes") }

\* recv returns None in this step, by way of the except clause
ReturnsNone == rpc # "idle" /\ rpc' = "idle" /\ rret' = "None"

\* the CLOSE frames not written after writer.close() that carry the status st
ClosesWith(st) ==
    { i \in DOMAIN wr : wr[i].opcode = CLOSE /\ ~wr[i].late
                        /\ SubSeq(wr[i].payload, 1, 2) = PackH(st) }

\* C3 (as claimed): when recv ends on a protocol violation of the peer, a
\* CLOSE frame with the violation's close code has been handed to the writer
\* before the transport is closed.
C3_CloseFrameOnViolation ==
    (rret = "None" /\ closeCalls = 1 /\ reason \in ViolationReasons)
        => ClosesWith(status) # {}

\* C3 (amended): when recv ends on a protocol violation of the peer, it
\* hands no frame to the writer; it closes the transport, returns None and
\* records the violation's close code, 1009 for a payload that is too large
\* and 1002 for every other violation.
C3_NoCloseFrameOnViolation ==
    [][(ReturnsNone /\ reason' \in ViolationReasons)
         => /\ wr' = wr
            /\ closeCalls' = closeCalls + 1
            /\ status' = IF reason' = Lit("payload too large") THEN 1009 ELSE 1002]_vars

\* a frame longer than WEBSOCKET_MAX_PAYLOAD ended the first recv: 1009
\* recorded, the transport closed, nothing written
C3_Witness ==
    /\ rret = "None"
    /\ closeCalls = 1
    /\ status = 1009
    /\ reason = Lit("payload too large")
    /\ lastFrame = Frame(TRUE, 0, BINARY, << 65, 65, 65, 65 >>)
    /\ wr = << >>

\* the texts of the exceptions that are no ClosedException: a reader
\* exception, a short read at EOF, a failed drain, a cancellation, a
\* UnicodeDecodeError of the incremental decoder
FaultReasons ==
    { Lit("[Errno 104] Connection reset by peer"),
      Lit("0 bytes read on a total of 2 expected bytes"),
      Lit("Connection lost"), Lit(""), Lit("'utf-8' codec can't decode bytes") }

\* the status and reason recv_frame's ClosedException carries for frame f
FrameViolation(f) ==
    IF f.rsv # 0 THEN << 1002, Lit("RSV bit must be 0") >>
    ELSE IF f.opcode \notin {STREAM, TEXT, BINARY, CLOSE, PING, PONG}
    THEN << 1002, Lit("unknown opcode") >>
    ELSE IF f.length > WEBSOCKET_MAX_PAYLOAD THEN << 1009, Lit("payload too large") >>
    ELSE << 0, Lit("") >>

\* C4: whenever recv ends on a transport failure or a protocol violation it
\* closes the transport and returns None; it records the ClosedException's
\* status and reason for a violation (1002 'RSV bit must be 0', 1002
\* 'unknown opcode', 1009 'payload too large'), and 1002 with the
\* exception's text for any other exception.
C4_FaultEndsRecv ==
    [][/\ (rpc # "idle" /\ rpc' = "idle") => (rret' = "msg" \/ ReturnsNone)
       /\ ReturnsNone =>
            /\ closeCalls' = closeCalls + 1
            /\ reason' \in FaultReasons => status' = 1002
            /\ (reason' \in ViolationReasons /\ status' # 1002)
                 => (status' = 1009 /\ reason' = Lit("payload too large"))
       /\ (nframes' = nframes + 1 /\ FrameViolation(lastFrame')[1] # 0)
            => /\ ReturnsNone
               /\ << status', reason' >> = FrameViolation(lastFrame')
       /\ (rpc = "reading" /\ rd = "exc" /\ rpc' = "idle")
            => /\ rret' = "None"
               /\ status' = 1002
               /\ reason' \in { Lit("[Errno 104] Connection reset by peer"), Lit("") }
      ]_vars

\* the reader held an exception: recv returned None with 1002 and its text
C4_Witness ==
    /\ rret = "None"
    /\ closeCalls = 1
    /\ rd = "exc"
    /\ status = 1002
    /\ reason = Lit("[Errno 104] Connection reset by peer")

\* recv reads a CLOSE frame that recv_frame accepts while the connection is
\* Open: no CLOSE sent yet, the transport not closed
ReadsCloseWhileOpen ==
    /\ nframes' = nframes + 1
    /\ lastFrame'.opcode = CLOSE
    /\ recv_frame(lastFrame').exc.kind = "none"
    /\ ~closed
    /\ closeCalls = 0

\* the CLOSE frame that carries the values resolved from payload p
ResolvedClose(p) ==
    Written(send_frame(FALSE, CLOSE,
                       PackH(ParseClose(p).status) \o PayloadOf(ParseClose(p).reason), mask),
            "recv")

C5_SendsResolved ==
    ReadsCloseWhileOpen
        => /\ wr' = Append(wr, ResolvedClose(lastFrame'.payload))
           /\ closed'
           /\ rpc' = "closing"
           /\ pend' = ClosedException(ParseClose(lastFrame'.payload).status,
                                      ParseClose(lastFrame'.payload).reason)

ValidCloseCodes ==
    {1000, 1001, 1002, 1003, 1007, 1008, 1009, 1010, 1011} \cup (3000..3999) \cup (4000..4999)

\* the status on the wire of a CLOSE payload of two bytes or more
WireStatus(p) == p[1] * 256 + p[2]

\* recv has returned None on the CLOSE frame lastFrame
ClosedByPeer == rret = "None" /\ rpc = "idle" /\ lastFrame.opcode = CLOSE /\ lastFrame.fin

\* C6 (as claimed): a received CLOSE whose status is in {1000, 1001, 1002,
\* 1003, 1007, 1008, 1009, 1010, 1011} or 3000..3999 or 4000..4999, with a
\* valid UTF-8 reason, surfaces that status unchanged; only the codes
\* outside this set are remapped to 1002.
C6_ValidStatusUnchanged ==
    (ClosedByPeer /\ Len(lastFrame.payload) >= 2
       /\ Utf8Decode(SubSeq(lastFrame.payload, 3, Len(lastFrame.payload)), TRUE).ok)
        => status = IF WireStatus(lastFrame.payload) \in ValidCloseCodes
                    THEN WireStatus(lastFrame.payload) ELSE 1002

\* C7 (as claimed): an empty CLOSE payload resolves to 1000 and an empty
\* reason, a payload of one byte to 1002, a longer payload to its big-endian
\* status, remapped to 1002 when that status is not a valid close code or
\* the rest of the payload is not UTF-8.
C7_ClosePayloadParsed ==
    ClosedByPeer =>
        LET p == lastFrame.payload
        IN IF Len(p) = 0 THEN status = 1000 /\ reason.data = << >>
           ELSE IF Len(p) = 1 THEN status = 1002
           ELSE status = IF WireStatus(p) \notin ValidCloseCodes
                            \/ ~Utf8Decode(SubSeq(p, 3, Len(p)), TRUE).ok
                         THEN 1002 ELSE WireStatus(p)

\* the message a complete message of the peer stands for
MsgOf(m) ==
    IF m.type = TEXT THEN Msg("text", Utf8Decode(m.raw, TRUE).out) ELSE Msg("binary", m.raw)

\* C8: recv never returns the payload of a PING, PONG or CLOSE frame; a
\* PING or PONG with fin=1 between the fragments of a message leaves the
\* reassembly as it is, and the message delivered in the end is the
\* concatenation of the data fragments in arrival order.
C8_ControlFramesInvisible ==
    [][/\ delivered' # delivered
            => /\ lastFrame'.opcode \in {STREAM, TEXT, BINARY}
               /\ nframes' = nframes + 1
       /\ (nframes' = nframes + 1 /\ lastFrame'.opcode \in {PING, PONG} /\ lastFrame'.fin)
            => /\ UNCHANGED recvLocals
               /\ rpc' = "reading"
               /\ UNCHANGED << delivered, closeCalls >>
       /\ (delivered' # delivered /\ peerOk' /\ closeCalls = 0)
            => /\ sent' # sent
               /\ delivered' = Append(delivered, MsgOf(sent'[Len(sent')]))]_vars

\* TEXT fin=0 with the first byte of U+00E9, a PING, the CONTINUATION fin=1
\* with the second byte: one PONG written, the text U+00E9 delivered
C8_Witness ==
    /\ nframes = 3
    /\ lastFrame = Frame(TRUE, 0, STREAM, << 169 >>)
    /\ sent = << [type |-> TEXT, raw |-> << 195, 169 >>] >>
    /\ Len(wr) = 1
    /\ wr[1].opcode = PONG
    /\ delivered = << Msg("text", << 233 >>) >>

\* C9: as long as the peer keeps to the protocol and no recv has ended the
\* connection, the messages recv has returned are the complete messages
\* the peer has sent, in order; a fragmented message is delivered once, on
\* its fin=1 CONTINUATION, and no fin=0 frame delivers anything.
C9_DeliveryOrder ==
    /\ []((peerOk /\ closeCalls = 0)
            => /\ Len(delivered) = Len(sent)
               /\ \A i \in DOMAIN sent : delivered[i] = MsgOf(sent[i]))
    /\ [][/\ Len(delivered') \in {Len(delivered), Len(delivered) + 1}
          /\ (nframes' = nframes + 1 /\ ~lastFrame'.fin) => delivered' = delivered
          /\ (delivered' # delivered /\ frag_start)
               => (lastFrame'.opcode = STREAM /\ lastFrame'.fin)]_vars

\* a text message in one frame, then a binary message in two fragments:
\* both delivered, in this order
C9_Witness ==
    /\ closeCalls = 0
    /\ peerOk
    /\ nframes = 3
    /\ delivered = << Msg("text", << 65 >>), Msg("binary", << 65, 65, 65 >>) >>

\* C10 (as claimed): fragments whose summed payload length exceeds
\* WEBSOCKET_MAX_PAYLOAD end the connection with 1009 and their message is
\* never delivered.
C10_CumulativeBound ==
    (peerOk /\ closeCalls = 0)
        => \A i \in DOMAIN sent :
               (i \in DOMAIN delivered) => Len(sent[i].raw) <= WEBSOCKET_MAX_PAYLOAD

\* the frames written by send, send_fragment_start, send_fragment,
\* send_fragment_end, ping and close (close called by a task or by recv)
OperationFrames == { i \in DOMAIN wr : wr[i].by = "call" \/ wr[i].opcode = CLOSE }

\* C11: every frame written by send, send_fragment_start, send_fragment,
\* send_fragment_end, ping and close is masked if and only if the endpoint
\* is a client (_mask set by connect); a server endpoint writes them
\* unmasked.
C11_MaskIffClient == \A i \in OperationFrames : wr[i].mask = mask

\* a client endpoint after a ping, a send and a close: three masked frames
C11_Witness ==
    /\ mask
    /\ Len(wr) = 3
    /\ { wr[i].opcode : i \in DOMAIN wr } = {PING, TEXT, CLOSE}
    /\ \A i \in DOMAIN wr : wr[i].by = "call" /\ wr[i].mask

\* the responses of the given kind the server handshake handed to the
\* writer while the transport was not yet closed
Responses(what) == { i \in DOMAIN hwr : hwr[i].what = what /\ ~hwr[i].late }

\* C12 (as claimed): with auto_handshake, func is called only after the 101
\* response of a successful handshake; on every handshake failure (missing
\* key, timeout, oversized headers, transport error) a 400 response is
\* written, the transport is closed and func is never called.
C12_FuncOnlyAfterHandshake ==
    (hrole = "server" /\ auto_handshake)
        => /\ hres = "func" => (Responses("101") # {} /\ Responses("400") = {})
           /\ (hpc = "end" /\ hres # "func")
                => (Responses("400") # {} /\ closeCalls >= 1)

\* the header block the client read ended, with a status line and the
\* Sec-WebSocket-Accept value a (0: no such header)
ResponseWith(a) ==
    /\ header_buffer # << >>
    /\ InCRLF(header_buffer[Len(header_buffer)])
    /\ ResponseParsed(header_buffer)
    /\ GetAccept(header_buffer) = a

\* C13 (as claimed): connect returns a Websocket only if the response
\* carried a Sec-WebSocket-Accept header equal to the digest of the key
\* sent; in every other outcome of the handshake (missing header, mismatch,
\* no data, oversized headers, cancellation) it returns no Websocket, fails
\* with a protocol error, and the transport is closed.
C13_WebsocketOnlyIfAccepted ==
    (hrole = "client" /\ hpc = "end" /\ hwr # << >>)
        => IF hres = "websocket" THEN ResponseWith(Digest(key))
           ELSE /\ hres = "raised"
                /\ closeCalls >= 1
                /\ (rd = "open" /\ ~connLost) => hexc.kind = "ProtocolError"

C15_PortChoice ==
    (hrole = "client" /\ hpc # "start")
        => port = IF url.port # 0 THEN url.port
                  ELSE IF url.scheme = << "w", "s", "s" >> THEN 443
                  ELSE 80

\* recv reads a frame of one of the opcodes ops that recv_frame accepts
ReadsFrameOf(ops) ==
    /\ rpc = "reading"
    /\ nframes' = nframes + 1
    /\ lastFrame'.opcode \in ops
    /\ recv_frame(lastFrame').exc.kind = "none"

\* recv ends in this step with 1002 'fragmentation protocol error'
EndsWithFragmentationError ==
    /\ ReturnsNone
    /\ status' = 1002
    /\ reason' = Lit("fragmentation protocol error")
    /\ delivered' = delivered

\* C16 (as claimed): a TEXT or BINARY frame, fin=0 or fin=1, read while a
\* fragmented message is being reassembled ends the connection with 1002
\* 'fragmentation protocol error'; it never restarts or replaces the
\* pending reassembly.
C16_NoNestedMessage ==
    [][(frag_start /\ ReadsFrameOf({TEXT, BINARY})) => EndsWithFragmentationError]_vars

\* C17: a CONTINUATION frame, fin=0 or fin=1, read while no fragmented
\* message is in progress ends the connection with 1002 'fragmentation
\* protocol error' and delivers nothing; a delivered message ends its recv
\* call and every recv call starts with the reassembly Idle, so that a
\* CONTINUATION after a delivered fragmented message is rejected the same
\* way.
C17_ContinuationNeedsStart ==
    [][/\ (~frag_start /\ ReadsFrameOf({STREAM}))
            => /\ EndsWithFragmentationError
               /\ closeCalls' = closeCalls + 1
               /\ wr' = wr
       /\ delivered' # delivered => rpc' = "idle"
       /\ (rpc = "idle" /\ rpc' = "reading")
            => (~frag_start' /\ frag_buffer' = << >> /\ frag_decoder' = << >>)]_vars

\* BINARY fin=0 'A' and CONTINUATION fin=1 'A' delivered as one message,
\* then a CONTINUATION fin=1 read by the next recv: None, 1002
C17_Witness ==
    /\ nframes = 3
    /\ delivered = << Msg("binary", << 65, 65 >>) >>
    /\ lastFrame = Frame(TRUE, 0, STREAM, << 65 >>)
    /\ rret = "None"
    /\ closeCalls = 1
    /\ status = 1002
    /\ reason = Lit("fragmentation protocol error")

\* C18 (as claimed): on a PING the endpoint writes, before recv returns its
\* next result, a PONG frame with FIN set and the same payload, masked if
\* the endpoint is a client and unmasked if it is a server.
C18_PongReply ==
    [][(ReadsFrameOf({PING}) /\ lastFrame'.fin)
         => /\ wr' = Append(wr, Written(send_frame(FALSE, PONG, lastFrame'.payload, mask), "recv"))
            /\ rpc' = "reading"
            /\ rret' = rret]_vars

\* C19 (as claimed): every control frame (CLOSE, PING, PONG) read with
\* fin=0 or with a 7-bit length above 125 is rejected: recv ends with 1002
\* ('control messages can not be fragmented' or 'control frame length can
\* not be > 125') and the frame is not processed as a ping, pong or close.
C19_ControlFramesChecked ==
    [][(/\ rpc = "reading"
        /\ nframes' = nframes + 1
        /\ lastFrame'.opcode \in {CLOSE, PING, PONG}
        /\ lastFrame'.rsv = 0
        /\ (~lastFrame'.fin \/ lastFrame'.len7 > 125))
         => /\ ReturnsNone
            /\ status' = 1002
            /\ reason' \in { Lit("control messages can not be fragmented"),
                             Lit("control frame length can not be > 125") }
            /\ wr' = wr]_vars

\* C20 (as claimed): over the whole life of a connection, repeated recv
\* calls after the end of the stream included, the transport's close
\* operation is invoked once only.
C20_TransportClosedOnce == closeCalls <= 1

\* C21 (as claimed): the status and reason recorded by the first recv that
\* returns None are final: every later recv call also returns None and
\* leaves status and reason as they are.
C21_FinalStatus ==
    [][(closeCalls > 0 /\ rpc # "idle" /\ rpc' = "idle")
         => /\ rret' = "None"
            /\ status' = status
            /\ reason' = reason]_vars

\* C22 (as claimed): for every frame with a valid opcode and a payload up
\* to the limit, with and without mask, recv_frame on the bytes send_frame
\* wrote returns the same (fin, opcode, length, payload), and byte 0 of
\* these bytes is (fin ? 0x80 : 0) | opcode.
C22_CodecRoundTrip ==
    cpc = "read"
        => /\ cout = [fin |-> cin.fin, opcode |-> cin.opcode, payload |-> cin.data,
                      length |-> Len(cin.data), exc |-> NoException]
           /\ cbytes[1] = (IF cin.fin THEN 128 ELSE 0) + cin.opcode

\* C23 (as claimed): on either side of the handshake, header reading stops
\* only at a line that is exactly CR LF: after any other line (a bare LF
\* included) that keeps the header block within its limit, the handshake
\* still waits for the next line.
C23_ExactTerminator ==
    [][(/\ hpc = "readline"
        /\ header_buffer' # header_buffer
        /\ header_buffer'[Len(header_buffer')] # CRLF
        /\ BufferBytes(header_buffer') <= WEBSOCKET_MAX_HEADER)
         => hpc' = "readline"]_vars

\* the bytes of the chunks of frame n, in the order of the stream
RECURSIVE ChunkBytes(_, _)
ChunkBytes(chunks, n) ==
    IF chunks = << >> THEN << >>
    ELSE (IF chunks[1].id = n THEN chunks[1].bytes ELSE << >>) \o ChunkBytes(Tail(chunks), n)

\* C24: under every interleaving of tasks that call send, ping, close or
\* the send_fragment operations on one connection, and of recv's PONG
\* replies, the chunks of each frame (header, mask key, payload) are
\* adjacent in the write stream and add up to the frame's bytes: a task
\* suspends only outside send_frame or in the drain after all its writes.
C24_FramesContiguous ==
    /\ \A i, j, k \in DOMAIN out : (i < j /\ j < k /\ out[i].id = out[k].id) => out[j].id = out[i].id
    /\ \A t \in Tasks : tpc[t] \in {"header", "mask", "data", "flush"} => running = t
    /\ running = "loop" => \A n \in DOMAIN started : ChunkBytes(out, n) = started[n]

\* three frames in the stream, one of each task, the first of them flushed:
\* its task waited in the drain while the others wrote
C24_Witness ==
    /\ running = "loop"
    /\ Len(started) = 3
    /\ { out[i].task : i \in DOMAIN out } = Tasks
    /\ targs[out[1].task].flush
    /\ out[1].id = 1
    /\ tpc[out[1].task] = "drain"
    /\ \E i \in DOMAIN out : out[i].id = 3 /\ out[i].task = "recv"

====
